---- MODULE Spec2Model ----
(***************************************************************************)
(* NanoPlot driver (src/nanoplot/NanoPlot.py): main, make_stats,           *)
(* make_plots and make_report as a state machine.                          *)
(*                                                                         *)
(* Strings are sequences of tokens, so that concatenation, os.path.join    *)
(* and str.replace are computed rather than assumed.  A dataset is the set *)
(* of its column names together with its rows; a row carries the two       *)
(* columns the driver itself looks at (barcode, length_filter).            *)
(***************************************************************************)
EXTENDS Integers, Sequences, FiniteSets, TLC

VARIABLES pc, settings, datadf, barcodes, bi, plots, invocations, files,
          html, stdout, stderr, log, trace, exc

vars == <<pc, settings, datadf, barcodes, bi, plots, invocations, files,
          html, stdout, stderr, log, trace, exc>>

\* ------------------------------------------------------------------ bounds
MaxBlocks == 2
MaxPlotRows == 2

\* --------------------------------------------------------- input alphabets
Labels == {"BC01", "BC02"}
BlockSizes == {5, 6}
NoBarcode == "NA"
Prefixes == {<< >>, <<"run_">>}
Outdir == <<"out">>
NoneTitle == "None"
Unset == "unset"

BaseColumns == {"lengths", "length_filter"}
OptionalColumns == {"quals", "channelIDs", "start_time", "aligned_lengths",
                    "mapQ", "percentIdentity", "aligned_quals"}
ColumnProfiles == { {}, {"quals"}, {"quals", "mapQ", "percentIdentity"},
                    OptionalColumns }
LengthsPointers == {"lengths", "aligned_lengths"}
WholeFrame == "*"

\* --------------------------------------------------------- string helpers
\* os.path.join(a, b)
Join(a, b) ==
    IF b # << >> /\ Head(b) = "/" THEN b
    ELSE IF a = << >> \/ a[Len(a)] = "/" THEN a \o b
    ELSE a \o <<"/">> \o b

\* title.replace(' ', '_')
Sanitize(title) == [i \in DOMAIN title |-> IF title[i] = " " THEN "_" ELSE title[i]]

\* list(series.unique()): distinct values in first-occurrence order
RECURSIVE unique(_)
unique(s) ==
    IF s = << >> THEN << >>
    ELSE LET h == Head(s)
         IN <<h>> \o unique(SelectSeq(Tail(s), LAMBDA x : x # h))

\* ---------------------------------------------------------------- datasets
Row(label, keep) == [barcode |-> label, length_filter |-> keep]

RECURSIVE Expand(_)
Expand(blocks) ==
    IF blocks = << >> THEN << >>
    ELSE [i \in 1..Head(blocks)[2] |-> Row(Head(blocks)[1], TRUE)] \o Expand(Tail(blocks))

BlockSeqs(labels) == UNION {[1..n -> labels \X BlockSizes] : n \in 0..MaxBlocks}

BarcodeColumn(df) == [i \in DOMAIN df.rows |-> df.rows[i].barcode]

\* datadf[datadf["barcode"] == barc]
SelectBarcode(df, barc) ==
    [df EXCEPT !.rows = SelectSeq(df.rows, LAMBDA r : r.barcode = barc)]

\* datadf[datadf["length_filter"]][col]   or   datadf[col]
InputRows(df, input) ==
    IF input.mask = "length_filter"
    THEN SelectSeq(df.rows, LAMBDA r : r.length_filter)
    ELSE df.rows

\* -------------------------------------------------------------- make_plots
\* One call of the rendering backend: the function called, the plot family it
\* renders, the file-name suffix appended to settings["path"], the columns whose
\* presence was tested before the call, and the arguments taken from datadf
\* (column and row mask), in evaluation order.
In(arg, col, mask) == [arg |-> arg, col |-> col, mask |-> mask]

Call(fn, family, suffix, guards, inputs) ==
    [fn |-> fn, family |-> family, suffix |-> suffix, guards |-> guards,
     inputs |-> inputs]

\* lines 307-310: n50 = get_N50(np.sort(datadf["lengths"])) if settings["N50"]
N50Input(s) == IF s.N50 THEN <<In("n50", "lengths", "all")>> ELSE << >>

\* lines 311-320
LengthPlots(s) ==
    Call("length_plots", "Read length", << >>, {},
         <<In("array", "lengths", "length_filter")>> \o N50Input(s))

\* lines 322-335
LengthVsQual(s) ==
    Call("scatter", "Length vs Quality", <<"LengthvsQualityScatterPlot">>, {"quals"},
         <<In("x", s.lengths_pointer, "length_filter"),
           In("y", "quals", "length_filter")>>)

\* lines 337-345
ActivityMap(s) ==
    Call("spatial_heatmap", "Activity Map", <<"ActivityMap_ReadsPerChannel">>,
         {"channelIDs"}, <<In("array", "channelIDs", "all")>>)

\* lines 347-357
TimePlots(s) ==
    Call("time_plots", "Time series", << >>, {"start_time"},
         <<In("df", WholeFrame, "all")>>)

\* lines 359-371
AlignedVsSequenced(s) ==
    Call("scatter", "Aligned length vs sequenced length",
         <<"AlignedReadlengthvsSequencedReadLength">>, {"aligned_lengths", "lengths"},
         <<In("x", "aligned_lengths", "length_filter"),
           In("y", "lengths", "length_filter")>>)

\* lines 373-385
MapQVsBaseQ(s) ==
    Call("scatter", "MapQ vs Base Quality", <<"MappingQualityvsAverageBaseQuality">>,
         {"mapQ", "quals"},
         <<In("x", "mapQ", "all"), In("y", "quals", "all")>>)

\* lines 387-399
LengthVsMapQ(s) ==
    Call("scatter", "Read length vs MapQ", <<"MappingQualityvsReadLength">>,
         {"mapQ", "quals"},
         <<In("x", s.lengths_pointer, "length_filter"),
           In("y", "mapQ", "length_filter")>>)

\* lines 402-417: minPID is computed at line 402, before the aligned_quals test
PercentIdentityVsBaseQ(s) ==
    Call("scatter", "Percent Identity vs Base Quality",
         <<"PercentIdentityvsAverageBaseQuality">>, {"percentIdentity", "aligned_quals"},
         <<In("minvalx", "percentIdentity", "all"),
           In("x", "percentIdentity", "all"), In("y", "aligned_quals", "all")>>)

\* lines 419-433
LengthVsPercentIdentity(s) ==
    Call("scatter", "Aligned length vs Percent Identity",
         <<"PercentIdentityvsAlignedReadLength">>, {"percentIdentity"},
         <<In("minvaly", "percentIdentity", "all"),
           In("x", s.lengths_pointer, "length_filter"),
           In("y", "percentIdentity", "length_filter")>>)

Has(df, col) == col \in df.cols

When(cond, call) == IF cond THEN <<call>> ELSE << >>

\* The backend calls of make_plots in program order, each under the presence
\* tests the code makes (lines 322, 337, 347, 359, 373, 401, 403).
PlotSteps(df, s) ==
    <<LengthPlots(s)>>
    \o When(Has(df, "quals"), LengthVsQual(s))
    \o When(Has(df, "channelIDs"), ActivityMap(s))
    \o When(Has(df, "start_time"), TimePlots(s))
    \o When(Has(df, "aligned_lengths") /\ Has(df, "lengths"), AlignedVsSequenced(s))
    \o When(Has(df, "mapQ") /\ Has(df, "quals"), MapQVsBaseQ(s))
    \o When(Has(df, "mapQ") /\ Has(df, "quals"), LengthVsMapQ(s))
    \o When(Has(df, "percentIdentity") /\ Has(df, "aligned_quals"),
            PercentIdentityVsBaseQ(s))
    \o When(Has(df, "percentIdentity"), LengthVsPercentIdentity(s))

\* The columns a call reads from datadf while its arguments are evaluated:
\* datadf[datadf["length_filter"]][col] reads length_filter, then col.
ColumnReads(call) ==
    UNION { ({call.inputs[i].col} \ {WholeFrame})
            \cup (IF call.inputs[i].mask = "length_filter" THEN {"length_filter"} ELSE {})
            : i \in DOMAIN call.inputs }

\* datadf[col] raises KeyError when col is not a column
RaisesKeyError(df, call) == \E c \in ColumnReads(call) : ~Has(df, c)

FirstRaise(df, steps) ==
    IF \E i \in DOMAIN steps : RaisesKeyError(df, steps[i])
    THEN CHOOSE i \in DOMAIN steps :
            /\ RaisesKeyError(df, steps[i])
            /\ \A j \in 1..(i - 1) : ~RaisesKeyError(df, steps[j])
    ELSE 0

\* Title of the descriptor the backend returns for a call: the family's title.
PlotTitle(call) ==
    CASE call.family = "Read length" -> <<"Read", " ", "length">>
      [] call.family = "Length vs Quality" -> <<"Length", " ", "vs", " ", "Quality">>
      [] call.family = "Activity Map" -> <<"Activity", " ", "Map">>
      [] call.family = "Time series" -> <<"Time", " ", "series">>
      [] call.family = "Aligned length vs sequenced length" ->
            <<"Aligned", " ", "length", " ", "vs", " ", "sequenced", " ", "length">>
      [] call.family = "MapQ vs Base Quality" ->
            <<"MapQ", " ", "vs", " ", "Base", " ", "Quality">>
      [] call.family = "Read length vs MapQ" ->
            <<"Read", " ", "length", " ", "vs", " ", "MapQ">>
      [] call.family = "Percent Identity vs Base Quality" ->
            <<"Percent", " ", "Identity", " ", "vs", " ", "Base", " ", "Quality">>
      [] call.family = "Aligned length vs Percent Identity" ->
            <<"Aligned", " ", "length", " ", "vs", " ", "Percent", " ", "Identity">>

\* The Plot object a backend call returns
Plot(call, s) ==
    [title |-> PlotTitle(call), path |-> s.path \o call.suffix, family |-> call.family]

\* make_plots(datadf, settings): the calls made before the first KeyError (all
\* of them when none raises), the plots list returned, and whether it raised.
make_plots(df, s) ==
    LET steps == PlotSteps(df, s)
        bad   == FirstRaise(df, steps)
        done  == IF bad = 0 THEN steps ELSE SubSeq(steps, 1, bad - 1)
    IN [raised |-> bad # 0,
        calls  |-> done,
        failed |-> IF bad = 0 THEN << >> ELSE <<steps[bad]>>,
        plots  |-> IF bad = 0 THEN [i \in DOMAIN done |-> Plot(done[i], s)] ELSE << >>]

\* What a make_plots invocation is remembered by
Invocation(df, s, res) ==
    [title |-> s.title, path |-> s.path, df |-> df,
     lengths_pointer |-> s.lengths_pointer,
     raised |-> res.raised, calls |-> res.calls, failed |-> res.failed]

\* -------------------------------------------------------------- make_stats
\* nanomath.write_stats(datadfs, outputfile[, names]): the file it leaves
StatsText(kind, names, rows) == [kind |-> kind, names |-> names, rows |-> rows]

WriteFile(fs, path, content) == (path :> content) @@ fs

\* lines 281-294: the files written, in order, and the path returned
make_stats(df, s, suffix) ==
    LET statsfile == s.path \o <<"NanoStats">> \o suffix \o <<".txt">>
        first     == <<[path |-> statsfile,
                        content |-> StatsText("aggregate", << >>, df.rows)]>>
        names     == unique(BarcodeColumn(df))
        barcoded  == s.path \o <<"NanoStats", "_barcoded", ".txt">>
    IN IF s.barcoded
       THEN [writes |-> first \o <<[path |-> barcoded,
                                    content |-> StatsText("barcoded", names, df.rows)]>>,
             ret |-> barcoded]
       ELSE [writes |-> first, ret |-> statsfile]

RECURSIVE WriteAll(_, _)
WriteAll(fs, writes) ==
    IF writes = << >> THEN fs
    ELSE WriteAll(WriteFile(fs, Head(writes).path, Head(writes).content), Tail(writes))

\* ------------------------------------------------------------- make_report
Link(href, text) == [href |-> href, text |-> text]
Heading(id, text) == [id |-> id, text |-> text]

\* lines 450-457: statistics links of the table of contents
TocStats(s) ==
    IF s.filtered
    THEN <<Link(<<"stats0">>, <<"Summary", " ", "Statistics", " ", "prior", " ", "to", " ", "filtering">>),
           Link(<<"stats1">>, <<"Summary", " ", "Statistics", " ", "after", " ", "filtering">>)>>
    ELSE <<Link(<<"stats0">>, <<"Summary", " ", "Statistics">>)>>

TocPlots_raw(ps) == [i \in DOMAIN ps |-> [href |-> ps[i].title, text |-> ps[i].title]]

\* lines 459-460: one link per plot
TocPlots(ps) == [i \in DOMAIN ps |-> Link(Sanitize(ps[i].title), ps[i].title)]

\* lines 449-461
Toc(ps, s) == TocStats(s) \o <<Link(<<"plots">>, <<"Plots">>)>> \o TocPlots(ps)

\* lines 465-472: statistics headings, and the 0-based statsfile indices read
StatsHeadings(s) ==
    IF s.filtered
    THEN <<Heading(<<"stats0">>, <<"Summary", " ", "statistics", " ", "prior", " ", "to", " ", "filtering">>),
           Heading(<<"stats1">>, <<"Summary", " ", "statistics", " ", "after", " ", "filtering">>)>>
    ELSE <<Heading(<<"stats0">>, <<"Summary", " ", "statistics">>)>>

StatsIndices(s) == IF s.filtered THEN <<0, 1>> ELSE <<0>>

\* lines 476-479: one heading per plot
PlotHeadings(ps) == [i \in DOMAIN ps |-> Heading(Sanitize(ps[i].title), ps[i].title)]

\* lines 464-479
Headings(ps, s) ==
    StatsHeadings(s) \o <<Heading(<<"plots">>, <<"Plots">>)>> \o PlotHeadings(ps)

\* settings["statsfile"][i] raises IndexError past the end of the list
RaisesIndexError(s) ==
    \E k \in DOMAIN StatsIndices(s) : StatsIndices(s)[k] + 1 > Len(s.statsfile)

\* line 482
ReportPath(s) == s.path \o <<"NanoPlot-report.html">>

\* lines 438-485: the document, the statistics files rendered into it (file
\* path and text at the time of rendering), and the path it is written to
make_report(ps, s, fs) ==
    [raised  |-> RaisesIndexError(s),
     toc     |-> Toc(ps, s),
     headings |-> Headings(ps, s),
     stats   |-> IF RaisesIndexError(s) THEN << >>
                 ELSE [k \in DOMAIN StatsIndices(s) |->
                         LET f == s.statsfile[StatsIndices(s)[k] + 1]
                         IN [id |-> StatsHeadings(s)[k].id, file |-> f,
                             text |-> fs[f]]],
     path    |-> ReportPath(s)]

\* -------------------------------------------------------------------- main
MinReads == 5

\* line 43
MainPath(s) == Join(s.outdir, s.prefix)

BarcodePath_leak(s, barc) == s.path \o <<barc, "_">>

\* line 82
BarcodePath(s, barc) == Join(s.outdir, s.prefix \o <<barc, "_">>)

Retained_atLeast(dfbarc) == Len(dfbarc.rows) >= MinReads

\* line 84
Retained(dfbarc) == Len(dfbarc.rows) > MinReads

StatsPostNeeded_always(s) == TRUE

StatsPostNeeded_never(s) == FALSE

\* line 74
StatsPostNeeded(s) == s.filtered

\* lines 98-102: print() writes to sys.stdout
Line(msg, arg) == [msg |-> msg, arg |-> arg]

SupportMessage ==
    <<Line("If you read this then NanoPlot has crashed :-(", ""),
      Line("Please try updating NanoPlot and see if that helps...", ""),
      Line("If not, please report this issue at https://github.com/wdecoster/NanoPlot/issues", ""),
      Line("If you could include the log file that would be really helpful.", ""),
      Line("Thanks!", "")>>

LogInfo(msg, arg) == [level |-> "info", msg |-> msg, arg |-> arg]
LogError(stage) == [level |-> "error", msg |-> "exception", arg |-> stage]

\* lines 96-103: the except clause, entered from the stage that raised
Except(stage, lg, tr) ==
    /\ log' = Append(lg, LogError(stage))
    /\ stdout' = stdout \o SupportMessage
    /\ exc' = "raised"
    /\ trace' = Append(tr, "Failed")
    /\ pc' = "Failed"

\* The datasets ingestion can hand to the driver
Ingested(s) ==
    { [cols |-> {"lengths"} \cup prof \cup (IF s.barcoded THEN {"barcode"} ELSE {}),
       rows |-> Expand(blocks)] :
         prof \in ColumnProfiles,
         blocks \in IF s.barcoded THEN BlockSeqs(Labels)
                    ELSE [1..1 -> {NoBarcode} \X BlockSizes] }

\* filter_and_transform_data: what it may do to the rows
FilterOps == {"none", "mark", "drop"}

FilterRows(rows, op) ==
    IF rows = << >> \/ op = "none" THEN rows
    ELSE IF op = "mark" THEN [rows EXCEPT ![1].length_filter = FALSE]
    ELSE SubSeq(rows, 1, Len(rows) - 1)

\* filter_and_transform_data(datadf, settings), line 73
filter_and_transform_data(df, s, op, pointer) ==
    [datadf   |-> [cols |-> df.cols \cup {"length_filter"}, rows |-> FilterRows(df.rows, op)],
     settings |-> [s EXCEPT !.filtered = (op # "none"), !.lengths_pointer = pointer]]

NoData == [cols |-> {}, rows |-> << >>]
NoReport == [raised |-> FALSE, toc |-> << >>, headings |-> << >>, stats |-> << >>,
             path |-> << >>]
NoFiles == [f \in {} |-> StatsText("", << >>, << >>)]

Init ==
    /\ pc = "Setup"
    /\ settings \in [outdir : {Outdir}, prefix : Prefixes, barcoded : BOOLEAN,
                     N50 : {FALSE}, store : BOOLEAN, raw : BOOLEAN, pickle : BOOLEAN,
                     title : {NoneTitle}, path : {<< >>}, statsfile : {<< >>},
                     filtered : {FALSE}, lengths_pointer : {Unset}]
    /\ datadf = NoData
    /\ barcodes = << >>
    /\ bi = 0
    /\ plots = << >>
    /\ invocations = << >>
    /\ files = NoFiles
    /\ html = NoReport
    /\ stdout = << >>
    /\ stderr = << >>
    /\ log = << >>
    /\ trace = << >>
    /\ exc = "none"

\* lines 39-43
Setup ==
    /\ pc = "Setup"
    /\ settings' = [settings EXCEPT !.path = MainPath(settings)]
    /\ pc' = "Ingest"
    /\ UNCHANGED <<datadf, barcodes, bi, plots, invocations, files, html, stdout,
                   stderr, log, trace, exc>>

\* lines 55-64
Ingest ==
    /\ pc = "Ingest"
    /\ datadf' \in Ingested(settings)
    /\ trace' = Append(trace, IF settings.pickle THEN "Load" ELSE "Ingest")
    /\ pc' = "Cache"
    /\ UNCHANGED <<settings, barcodes, bi, plots, invocations, files, html, stdout,
                   stderr, log, exc>>

\* lines 65-70
CacheWrites(df, s) ==
    (IF s.store
     THEN <<[path |-> s.path \o <<"NanoPlot-data.pickle">>,
             content |-> StatsText("pickle", << >>, df.rows)]>>
     ELSE << >>)
    \o (IF s.raw
        THEN <<[path |-> <<"NanoPlot-data.tsv.gz">>,
                content |-> StatsText("tsv", << >>, df.rows)]>>
        ELSE << >>)

Cache ==
    /\ pc = "Cache"
    /\ files' = WriteAll(files, CacheWrites(datadf, settings))
    /\ trace' = IF settings.store \/ settings.raw THEN Append(trace, "Cache") ELSE trace
    /\ pc' = "StatsPre"
    /\ UNCHANGED <<settings, datadf, barcodes, bi, plots, invocations, html, stdout,
                   stderr, log, exc>>

\* line 72
StatsPre ==
    /\ pc = "StatsPre"
    /\ LET st == make_stats(datadf, settings, << >>)
       IN /\ files' = WriteAll(files, st.writes)
          /\ settings' = [settings EXCEPT !.statsfile = <<st.ret>>]
    /\ log' = Append(log, LogInfo("Calculated statistics", ""))
    /\ trace' = Append(trace, "StatsPre")
    /\ pc' = "Filter"
    /\ UNCHANGED <<datadf, barcodes, bi, plots, invocations, html, stdout, stderr, exc>>

\* lines 73-74
Filter ==
    /\ pc = "Filter"
    /\ \E op \in FilterOps, pointer \in LengthsPointers :
         LET r == filter_and_transform_data(datadf, settings, op, pointer)
         IN /\ datadf' = r.datadf
            /\ settings' = r.settings
            /\ pc' = IF StatsPostNeeded(r.settings) THEN "StatsPost" ELSE "Plot"
    /\ trace' = Append(trace, "Filter")
    /\ UNCHANGED <<barcodes, bi, plots, invocations, files, html, stdout, stderr, log, exc>>

\* line 75
StatsPost ==
    /\ pc = "StatsPost"
    /\ LET st == make_stats(datadf, settings, <<"_post_filtering">>)
       IN /\ files' = WriteAll(files, st.writes)
          /\ settings' = [settings EXCEPT !.statsfile = Append(@, st.ret)]
    /\ log' = Append(log, LogInfo("Calculated statistics", ""))
    /\ trace' = Append(trace, "StatsPost")
    /\ pc' = "Plot"
    /\ UNCHANGED <<datadf, barcodes, bi, plots, invocations, html, stdout, stderr, exc>>

\* line 93
DirectPlot ==
    /\ pc = "Plot"
    /\ ~settings.barcoded
    /\ LET res == make_plots(datadf, settings)
       IN /\ invocations' = Append(invocations, Invocation(datadf, settings, res))
          /\ IF res.raised
             THEN /\ Except("make_plots: KeyError", log, Append(trace, "DirectPlot"))
                  /\ UNCHANGED plots
             ELSE /\ plots' = res.plots
                  /\ trace' = Append(trace, "DirectPlot")
                  /\ pc' = "Report"
                  /\ UNCHANGED <<log, stdout, exc>>
    /\ UNCHANGED <<settings, datadf, barcodes, bi, files, html, stderr>>

\* lines 77-79
BarcodeStart ==
    /\ pc = "Plot"
    /\ settings.barcoded
    /\ barcodes' = unique(BarcodeColumn(datadf))
    /\ plots' = << >>
    /\ bi' = 1
    /\ pc' = IF barcodes' = << >> THEN "Report" ELSE "BarcodeLoop"
    /\ trace' = Append(trace, "BarcodeFanOut")
    /\ UNCHANGED <<settings, datadf, invocations, files, html, stdout, stderr, log, exc>>

\* line 90
SkipNotice(barc) == Line("Found barcode less than 5x, ignoring...", barc)

\* lines 80-91: one iteration of the loop over barcodes
BarcodeStep ==
    /\ pc = "BarcodeLoop"
    /\ LET barc   == barcodes[bi]
           lg     == Append(log, LogInfo("Processing", barc))
           s1     == [settings EXCEPT !.path = BarcodePath(settings, barc)]
           dfbarc == SelectBarcode(datadf, barc)
           s2     == [s1 EXCEPT !.title = barc]
           res    == make_plots(dfbarc, s2)
           next   == IF bi = Len(barcodes) THEN "Report" ELSE "BarcodeLoop"
       IN IF Retained(dfbarc)
          THEN /\ settings' = s2
               /\ invocations' = Append(invocations, Invocation(dfbarc, s2, res))
               /\ UNCHANGED stderr
               /\ IF res.raised
                  THEN /\ Except("make_plots: KeyError", lg, trace)
                       /\ UNCHANGED <<plots, bi>>
                  ELSE /\ plots' = plots \o res.plots
                       /\ bi' = bi + 1
                       /\ log' = lg
                       /\ pc' = next
                       /\ UNCHANGED <<stdout, exc, trace>>
          ELSE /\ settings' = s1
               /\ stderr' = Append(stderr, SkipNotice(barc))
               /\ log' = Append(lg, LogInfo("Found barcode less than 5 times, ignoring", barc))
               /\ bi' = bi + 1
               /\ pc' = next
               /\ UNCHANGED <<plots, invocations, stdout, exc, trace>>
    /\ UNCHANGED <<datadf, barcodes, files, html>>

\* line 94
Report ==
    /\ pc = "Report"
    /\ LET rep == make_report(plots, settings, files)
       IN IF rep.raised
          THEN /\ Except("make_report: IndexError", Append(log, LogInfo("Writing html report.", "")),
                         Append(trace, "Report"))
               /\ UNCHANGED <<html, files>>
          ELSE /\ html' = rep
               /\ files' = WriteFile(files, rep.path, StatsText("html", << >>, << >>))
               /\ log' = Append(log, LogInfo("Writing html report.", ""))
               /\ trace' = Append(trace, "Report")
               /\ pc' = "Finish"
               /\ UNCHANGED <<stdout, exc>>
    /\ UNCHANGED <<settings, datadf, barcodes, bi, plots, invocations, stderr>>

\* line 95
Finish ==
    /\ pc = "Finish"
    /\ log' = Append(log, LogInfo("Finished!", ""))
    /\ trace' = Append(trace, "Done")
    /\ pc' = "Done"
    /\ UNCHANGED <<settings, datadf, barcodes, bi, plots, invocations, files, html,
                   stdout, stderr, exc>>

\* The stages inside the try block whose collaborators can raise
Stages == {"Setup", "Ingest", "Cache", "StatsPre", "Filter", "StatsPost", "Plot",
           "BarcodeLoop", "Report"}

\* lines 38-103: an exception raised by the stage about to run
Crash ==
    /\ pc \in Stages
    /\ Except(pc, log, trace)
    /\ UNCHANGED <<settings, datadf, barcodes, bi, plots, invocations, files, html, stderr>>

Next ==
    \/ Setup \/ Ingest \/ Cache \/ StatsPre \/ Filter \/ StatsPost
    \/ DirectPlot \/ BarcodeStart \/ BarcodeStep \/ Report \/ Finish \/ Crash

Spec == Init /\ [][Next]_vars

\* ------------------------------------------- make_plots on its own inputs
PlotFrames ==
    { [cols |-> BaseColumns \cup opt, rows |-> rows] :
        opt \in SUBSET OptionalColumns,
        rows \in UNION {[1..n -> {Row(NoBarcode, k) : k \in BOOLEAN}] : n \in 1..MaxPlotRows} }

InitPlots ==
    /\ pc = "CallPlots"
    /\ settings \in [outdir : {Outdir}, prefix : {<<"run_">>}, barcoded : {FALSE},
                     N50 : BOOLEAN, store : {FALSE}, raw : {FALSE}, pickle : {FALSE},
                     title : {NoneTitle}, path : {Join(Outdir, <<"run_">>)},
                     statsfile : {<< >>}, filtered : {FALSE},
                     lengths_pointer : LengthsPointers]
    /\ datadf \in PlotFrames
    /\ barcodes = << >>
    /\ bi = 0
    /\ plots = << >>
    /\ invocations = << >>
    /\ files = NoFiles
    /\ html = NoReport
    /\ stdout = << >>
    /\ stderr = << >>
    /\ log = << >>
    /\ trace = << >>
    /\ exc = "none"

\* lines 297-435: one call of make_plots, returning or raising
PlotsCall ==
    /\ pc = "CallPlots"
    /\ LET res == make_plots(datadf, settings)
       IN /\ invocations' = <<Invocation(datadf, settings, res)>>
          /\ plots' = res.plots
          /\ pc' = IF res.raised THEN "Raised" ELSE "Returned"
          /\ exc' = IF res.raised THEN "raised" ELSE "none"
    /\ UNCHANGED <<settings, datadf, barcodes, bi, files, html, stdout, stderr, log, trace>>

NextPlots == PlotsCall

SpecPlots == InitPlots /\ [][NextPlots]_vars

\* ------------------------------------------------------------ properties
FamilyOrder ==
    <<"Read length", "Length vs Quality", "Activity Map", "Time series",
      "Aligned length vs sequenced length", "MapQ vs Base Quality",
      "Read length vs MapQ", "Percent Identity vs Base Quality",
      "Aligned length vs Percent Identity">>

RequiredColumns(family) ==
    CASE family = "Read length" -> {}
      [] family = "Length vs Quality" -> {"quals"}
      [] family = "Activity Map" -> {"channelIDs"}
      [] family = "Time series" -> {"start_time"}
      [] family = "Aligned length vs sequenced length" -> {"aligned_lengths"}
      [] family = "MapQ vs Base Quality" -> {"mapQ", "quals"}
      [] family = "Read length vs MapQ" -> {"mapQ", "quals"}
      [] family = "Percent Identity vs Base Quality" -> {"percentIdentity", "aligned_quals"}
      [] family = "Aligned length vs Percent Identity" -> {"percentIdentity"}

ExpectedFamilies(cols) ==
    SelectSeq(FamilyOrder, LAMBDA f : RequiredColumns(f) \subseteq cols)

Families(ps) == [i \in DOMAIN ps |-> ps[i].family]

\* C1: once make_plots has been called on a dataset with lengths, length_filter
\* and any subset of the optional columns, the plot list it hands back holds
\* exactly the families whose required columns are present, in the fixed order.
C1_FamiliesMatchColumns ==
    pc \in {"Returned", "Raised"} => Families(plots) = ExpectedFamilies(datadf.cols)

\* C8: no call of make_plots raises for a missing column, and every column a
\* backend call reads is lengths, length_filter or a column whose presence
\* was tested before the read.
C8_ReadsAreGuarded ==
    \A k \in DOMAIN invocations :
        /\ ~invocations[k].raised
        /\ LET tried == invocations[k].calls \o invocations[k].failed
           IN \A i \in DOMAIN tried :
                 ColumnReads(tried[i]) \subseteq BaseColumns \cup tried[i].guards

\* Whenever make_plots returns, its list holds the families whose required
\* columns are present, in the fixed order; it raises only for an absent
\* aligned_lengths column named by lengths_pointer.
ReturnedFamiliesMatch ==
    /\ pc = "Returned" => Families(plots) = ExpectedFamilies(datadf.cols)
    /\ pc = "Raised" => /\ settings.lengths_pointer = "aligned_lengths"
                        /\ "aligned_lengths" \notin datadf.cols

LengthScatters ==
    {"Length vs Quality", "Aligned length vs sequenced length", "Read length vs MapQ",
     "Aligned length vs Percent Identity"}

LengthDependent(call, input) ==
    \/ call.family = "Read length" /\ input.arg \in {"array", "n50"}
    \/ call.family \in LengthScatters /\ input.col \in {"lengths", "aligned_lengths"}
    \/ call.fn = "time_plots"

\* C10: every length-dependent input handed to the backend (the read-length
\* array and its N50, the length axes of the four length scatters, the data
\* of the time-series plots) holds only rows whose length_filter is true.
C10_LengthInputsFiltered ==
    \A k \in DOMAIN invocations :
        \A i \in DOMAIN invocations[k].calls :
            \A j \in DOMAIN invocations[k].calls[i].inputs :
                LET call  == invocations[k].calls[i]
                    input == call.inputs[j]
                    rows  == InputRows(invocations[k].df, input)
                IN LengthDependent(call, input)
                      => \A r \in DOMAIN rows : rows[r].length_filter

\* --------------------------------------------------- the driver's claims
CountOf(label) == Len(SelectSeq(datadf.rows, LAMBDA r : r.barcode = label))

StartsWith(seq, pre) == Len(seq) >= Len(pre) /\ SubSeq(seq, 1, Len(pre)) = pre

Reported == {"Finish", "Done"}
FanOutOver == {"Report", "Finish", "Done"}

RECURSIVE SumCounts(_)
SumCounts(labels) ==
    IF labels = << >> THEN 0 ELSE CountOf(Head(labels)) + SumCounts(Tail(labels))

LabelPath(label) == Join(Outdir, settings.prefix \o <<label, "_">>)

InvokedOn(label) ==
    \E k \in DOMAIN invocations :
        /\ invocations[k].title = label
        /\ invocations[k].df.rows = SelectSeq(datadf.rows, LAMBDA r : r.barcode = label)

Noticed(label) ==
    \E k \in DOMAIN stderr :
        stderr[k] = Line("Found barcode less than 5x, ignoring...", label)

C2_Processed ==
    (settings.barcoded /\ bi >= 1) =>
        /\ \A i \in 1..(bi - 1) :
              LET label == barcodes[i]
              IN /\ InvokedOn(label) <=> CountOf(label) > 5
                 /\ Noticed(label) <=> CountOf(label) <= 5
                 /\ CountOf(label) <= 5 =>
                       \A p \in DOMAIN plots : ~StartsWith(plots[p].path, LabelPath(label))
        /\ pc \in FanOutOver =>
              /\ bi = Len(barcodes) + 1
              /\ {barcodes[i] : i \in DOMAIN barcodes}
                    = {datadf.rows[r].barcode : r \in DOMAIN datadf.rows}
              /\ SumCounts(SelectSeq(barcodes, LAMBDA l : CountOf(l) > 5))
                    + SumCounts(SelectSeq(barcodes, LAMBDA l : CountOf(l) <= 5))
                 = Len(datadf.rows)

C2_SkipContinues ==
    (pc = "BarcodeLoop" /\ bi' = bi + 1 /\ CountOf(barcodes[bi]) <= 5) =>
        /\ pc' \in {"BarcodeLoop", "Report"}
        /\ exc' = "none"
        /\ plots' = plots
        /\ invocations' = invocations

\* C2: in barcode mode make_plots is invoked on a label's rows exactly when the
\* label has more than 5 rows; a label with 5 or fewer rows yields no plot
\* descriptors and a skip notice naming it, and the loop goes on without
\* raising; once the fan-out is over every label of the dataset has been
\* handled and retained plus skipped row counts equal the dataset's row count.
C2_BarcodeThreshold == [](C2_Processed) /\ [][C2_SkipContinues]_vars

\* A finished barcode run with a label of exactly 5 rows (skipped) and a label
\* of exactly 6 rows (retained).
C2_Witness ==
    /\ pc = "Done"
    /\ settings.barcoded
    /\ \E i, j \in DOMAIN barcodes :
          /\ CountOf(barcodes[i]) = 5 /\ Noticed(barcodes[i])
          /\ CountOf(barcodes[j]) = 6 /\ InvokedOn(barcodes[j])

TocTexts == {html.toc[i].text : i \in DOMAIN html.toc}
TocTargets == {html.toc[i].href : i \in DOMAIN html.toc}

\* C3: when the report is assembled settings.statsfile has one entry if the
\* filtering stage reported no change and two if it reported a change; in the
\* unchanged case the table of contents links 'Summary Statistics' (stats0)
\* and neither of the prior/after links; make_report never reads a statsfile
\* entry that does not exist.
C3_StatsfileCount ==
    /\ pc \in FanOutOver =>
          Len(settings.statsfile) = (IF settings.filtered THEN 2 ELSE 1)
    /\ \A k \in DOMAIN log : log[k].arg # "make_report: IndexError"
    /\ pc \in Reported =>
          /\ Len(html.stats) = Len(settings.statsfile)
          /\ \A k \in DOMAIN html.stats : html.stats[k].file = settings.statsfile[k]
          /\ ~settings.filtered =>
                /\ \E i \in DOMAIN html.toc :
                      html.toc[i] = [href |-> <<"stats0">>, text |-> <<"Summary", " ", "Statistics">>]
                /\ <<"stats1">> \notin TocTargets
                /\ <<"Summary", " ", "Statistics", " ", "prior", " ", "to", " ", "filtering">> \notin TocTexts
                /\ <<"Summary", " ", "Statistics", " ", "after", " ", "filtering">> \notin TocTexts

\* A finished run whose filtering stage reported no change.
C3_Witness ==
    /\ pc = "Done"
    /\ ~settings.filtered
    /\ Len(settings.statsfile) = 1
    /\ Len(html.toc) >= 2

\* C4: in every successful run the report is written to the output directory
\* joined with the configured prefix followed by 'NanoPlot-report.html', the
\* prefix the NanoStats files were written under, whatever the barcode labels.
C4_ReportPath ==
    pc \in Reported =>
        /\ html.path = Join(settings.outdir, settings.prefix) \o <<"NanoPlot-report.html">>
        /\ html.path \in DOMAIN files
        /\ \A k \in DOMAIN settings.statsfile :
              StartsWith(settings.statsfile[k],
                         Join(settings.outdir, settings.prefix) \o <<"NanoStats">>)

PlotAnchors ==
    [i \in 1..(Len(html.headings) - Len(html.stats) - 1) |->
        html.headings[Len(html.stats) + 1 + i].id]

\* C5: no two plots of the list given to make_report get the same sanitized
\* anchor in the report.
C5_AnchorsDistinct ==
    pc \in Reported =>
        \A i, j \in DOMAIN PlotAnchors : i # j => PlotAnchors[i] # PlotAnchors[j]

\* C6: the table of contents holds one link per statistics section (1 or 2),
\* then the link to the plots panel, then one link per plot descriptor in the
\* order of the plot list and of the plots panel headings; every link's target
\* is the id of the heading at the same position.
C6_TocMatchesPanels ==
    pc \in Reported =>
        LET k == Len(html.stats)
        IN /\ k \in {1, 2}
           /\ k = Len(settings.statsfile)
           /\ Len(html.toc) = k + 1 + Len(plots)
           /\ Len(html.headings) = Len(html.toc)
           /\ \A i \in 1..k : html.toc[i].href = html.stats[i].id
           /\ html.toc[k + 1].href = <<"plots">>
           /\ \A i \in DOMAIN plots :
                 /\ html.toc[k + 1 + i].text = plots[i].title
                 /\ html.headings[k + 1 + i].text = plots[i].title
                 /\ html.headings[k + 1 + i].id
                       = [c \in DOMAIN plots[i].title |->
                            IF plots[i].title[c] = " " THEN "_" ELSE plots[i].title[c]]
           /\ \A i \in DOMAIN html.toc : html.toc[i].href = html.headings[i].id

\* A finished run with two statistics sections and at least two plots.
C6_Witness ==
    /\ pc = "Done"
    /\ settings.filtered
    /\ Len(plots) >= 2
    /\ Len(html.toc) = Len(plots) + 3

\* C7: after an error in any stage the driver is in Failed: the error is
\* logged, the support message is on the standard error stream, the error is
\* re-raised, and 'Finished!' is never logged.
C7_FailedReportsOnStderr ==
    pc = "Failed" =>
        /\ log # << >> /\ log[Len(log)].level = "error"
        /\ \A m \in DOMAIN SupportMessage :
              \E k \in DOMAIN stderr : stderr[k] = SupportMessage[m]
        /\ exc = "raised"
        /\ \A k \in DOMAIN log : log[k].msg # "Finished!"
        /\ \A k \in DOMAIN trace : trace[k] # "Done"

FirstIndex(label) ==
    CHOOSE r \in DOMAIN datadf.rows :
        /\ datadf.rows[r].barcode = label
        /\ \A q \in 1..(r - 1) : datadf.rows[q].barcode # label

RECURSIVE Descriptors(_)
Descriptors(invs) ==
    IF invs = << >> THEN << >>
    ELSE LET inv == Head(invs)
         IN [i \in DOMAIN inv.calls |->
               [title |-> PlotTitle(inv.calls[i]),
                path |-> inv.path \o inv.calls[i].suffix,
                family |-> inv.calls[i].family]]
            \o Descriptors(Tail(invs))

\* C9: in barcode mode the labels are processed in first-occurrence order and
\* the descriptors of retained labels are appended in that order; the k-th
\* call of make_plots is for the k-th retained label L, with settings.title = L
\* and settings.path = outdir joined with prefix + L + '_'.
C9_PerLabelSettings ==
    (settings.barcoded /\ bi >= 1) =>
        LET retained == SelectSeq(barcodes, LAMBDA l : CountOf(l) > 5)
        IN /\ \A i, j \in DOMAIN barcodes :
                 i < j => /\ barcodes[i] # barcodes[j]
                          /\ FirstIndex(barcodes[i]) < FirstIndex(barcodes[j])
           /\ Len(invocations) <= Len(retained)
           /\ \A k \in DOMAIN invocations :
                 /\ invocations[k].title = retained[k]
                 /\ invocations[k].path = Join(Outdir, settings.prefix \o <<retained[k], "_">>)
           /\ pc \in FanOutOver =>
                 /\ Len(invocations) = Len(retained)
                 /\ plots = Descriptors(invocations)

\* A finished barcode run in which a skipped label was processed before a
\* retained one.
C9_Witness ==
    /\ pc = "Done"
    /\ settings.barcoded
    /\ Len(barcodes) = 2
    /\ CountOf(barcodes[1]) <= 5
    /\ Len(invocations) = 1
    /\ invocations[1].title = barcodes[2]

\* ------------------------------------------------------------ stage order
\* The stages that have run, without the closing Failed of a run that raised
Completed ==
    IF trace # << >> /\ trace[Len(trace)] = "Failed"
    THEN SubSeq(trace, 1, Len(trace) - 1)
    ELSE trace

StageOrder ==
    <<IF settings.pickle THEN "Load" ELSE "Ingest">>
    \o (IF settings.store \/ settings.raw THEN <<"Cache">> ELSE << >>)
    \o <<"StatsPre", "Filter">>
    \o (IF settings.filtered THEN <<"StatsPost">> ELSE << >>)
    \o <<IF settings.barcoded THEN "BarcodeFanOut" ELSE "DirectPlot">>
    \o <<"Report", "Done">>

Ran(stage) == \E k \in DOMAIN trace : trace[k] = stage

SnapshotPath == Join(Outdir, settings.prefix) \o <<"NanoPlot-data.pickle">>
ExportPath == <<"NanoPlot-data.tsv.gz">>
CachePaths == {SnapshotPath, ExportPath}

\* rows is a dataset the filtering stage turns into the current datadf
Unfiltered(rows) ==
    /\ \A r \in DOMAIN rows : rows[r].length_filter
    /\ IF Ran("Filter")
       THEN \E op \in {"none", "mark", "drop"} :
               /\ (op # "none") <=> settings.filtered
               /\ datadf.rows = (IF rows = << >> \/ op = "none" THEN rows
                                 ELSE IF op = "mark"
                                      THEN [rows EXCEPT ![1].length_filter = FALSE]
                                      ELSE SubSeq(rows, 1, Len(rows) - 1))
       ELSE rows = datadf.rows

C11_Order ==
    /\ StartsWith(StageOrder, Completed)
    /\ \A k \in DOMAIN trace : trace[k] = "Failed" => k = Len(trace)
    /\ pc = "Done" => trace = StageOrder
    /\ Ran("Load") => ~Ran("Ingest")
    /\ (Ran("Filter") /\ Ran(IF settings.barcoded THEN "BarcodeFanOut" ELSE "DirectPlot"))
          => (Ran("StatsPost") <=> settings.filtered)
    /\ \A p \in CachePaths \cap DOMAIN files :
          /\ Ran("Cache")
          /\ Unfiltered(files[p].rows)
    /\ Ran("Cache") =>
          /\ SnapshotPath \in DOMAIN files <=> settings.store
          /\ ExportPath \in DOMAIN files <=> settings.raw
    /\ Ran("Report") =>
          /\ Cardinality({k \in DOMAIN trace : trace[k] = "Report"}) = 1
          /\ \A k \in DOMAIN invocations : ~invocations[k].raised
          /\ settings.barcoded => bi = Len(barcodes) + 1
          /\ ~settings.barcoded => Len(invocations) = 1

C11_Steps ==
    /\ (\E p \in CachePaths : p \in DOMAIN files' /\ p \notin DOMAIN files) =>
          /\ pc = "Cache"
          /\ ~Ran("Filter") /\ ~Ran("StatsPre")
          /\ "length_filter" \notin datadf.cols
          /\ \A p \in CachePaths \cap DOMAIN files' : files'[p].rows = datadf.rows
    /\ (\E p \in CachePaths \cap DOMAIN files : files'[p] # files[p]) => FALSE
    /\ (pc = "StatsPre" /\ pc' = "Filter") =>
          /\ ~Ran("Filter")
          /\ "length_filter" \notin datadf.cols
          /\ files'[settings'.statsfile[1]].rows = datadf.rows
    /\ html' # html =>
          /\ pc = "Report" /\ pc' = "Finish"
          /\ html = NoReport
          /\ html'.path \notin DOMAIN files /\ html'.path \in DOMAIN files'
          /\ invocations' = invocations /\ plots' = plots
    /\ Ran("Report") => (invocations' = invocations /\ plots' = plots /\ html' = html)

\* C11: the stages of every run occur in the order Ingest or Load, optional
\* Cache, StatsPre, Filter, optional StatsPost, plot generation, Report, Done,
\* a run that raises stopping where it is; the snapshot and the TSV export
\* hold the dataset as it was before filtering, the first statistics file is
\* computed from the unfiltered dataset, StatsPost runs exactly when the
\* filtering stage reported a change, and the report is written once, after
\* the last plot-generation call has returned.
C11_StageOrder == [](C11_Order) /\ [][C11_Steps]_vars

\* A finished barcode run loaded from a snapshot, with both cache files
\* written, a change reported by the filtering stage and two retained labels.
C11_Witness ==
    /\ pc = "Done"
    /\ settings.pickle /\ settings.store /\ settings.raw
    /\ settings.filtered /\ settings.barcoded
    /\ Len(invocations) = 2
    /\ CachePaths \subseteq DOMAIN files
    /\ files[SnapshotPath].rows # datadf.rows

\* C12: in every run whose filtering stage reported a change the two entries
\* of settings.statsfile are different paths, and in the assembled report the
\* file under 'prior to filtering' (stats0) holds the aggregate statistics of
\* the unfiltered dataset and the file under 'after filtering' (stats1) those
\* of the filtered dataset; no make_stats call has overwritten a file an
\* earlier call returned.
C12_StatsFilesDistinct ==
    (pc \in Reported /\ settings.filtered) =>
        /\ settings.statsfile[1] # settings.statsfile[2]
        /\ html.stats[1].text.kind = "aggregate"
        /\ Unfiltered(html.stats[1].text.rows)
        /\ files[settings.statsfile[1]] = html.stats[1].text
        /\ html.stats[2].text.kind = "aggregate"
        /\ html.stats[2].text.rows = datadf.rows

\* Without barcode mode the two statistics files are distinct and hold the
\* aggregate statistics of the unfiltered and of the filtered dataset.
StatsFilesDistinctUnlessBarcoded == ~settings.barcoded => C12_StatsFilesDistinct

====
